---- MODULE Spec2Model ----
(***************************************************************************)
(* Model of the OCR-markdown cleaning pipeline: clean_markdown_with_llm    *)
(* (one document: read -> model call -> write) and batch_clean_directory   *)
(* (glob a directory, one clean_markdown_with_llm per match), together     *)
(* with the file helpers of utils/file_handling.py.                        *)
(*                                                                         *)
(* A path is a sequence of names (pathlib parts); a name is a record       *)
(* [stem, suffix] as pathlib splits it.  A file's content is a sequence of *)
(* characters over Chars, where "CR" and "LF" are the two line-ending      *)
(* characters that Python's text-mode I/O translates.                      *)
(***************************************************************************)
EXTENDS Integers, Sequences, FiniteSets, TLC

VARIABLES
    mode,            \* "single": clean_markdown_with_llm called directly; "batch": batch_clean_directory; "path": the path derivation alone
    linesep,         \* os.linesep of the platform, as a character sequence
    input_dir,       \* batch_clean_directory parameter
    output_dir,      \* batch_clean_directory parameter
    file_pattern,    \* batch_clean_directory parameter
    markdown_files,  \* batch_clean_directory local: the enumerated matches
    idx,             \* position of the for loop in markdown_files (0 before the loop)
    batch_results,   \* batch_clean_directory local `results` (the list)
    bpc,             \* control point of batch_clean_directory
    input_path,      \* clean_markdown_with_llm parameter
    output_path,     \* clean_markdown_with_llm parameter / local (NoPath models None)
    results,         \* clean_markdown_with_llm local `results` (the dict)
    markdown_text,   \* clean_markdown_with_llm local
    pc,              \* control point of clean_markdown_with_llm
    fs,              \* the files on disk: path -> content
    dirs,            \* the directories on disk
    cleaned_text,    \* clean_markdown_with_llm local
    output_arg,      \* the output_path a direct caller passes (NoPath models None)
    cur,             \* observation of the invocation in progress
    log,             \* observations of the finished invocations, in order
    runs             \* number of invocations a direct caller has started

vars == <<mode, linesep, input_dir, output_dir, file_pattern, markdown_files, idx,
          batch_results, bpc, input_path, output_path, results, markdown_text, pc,
          cleaned_text, output_arg, fs, dirs, cur, log, runs>>

(***************************************************************************)
(* Bounds.                                                                 *)
(***************************************************************************)
MaxLen == 2      \* longest initial content of the input document
MaxDepth == 2    \* deepest directory nesting of the paths given to the path derivation

(***************************************************************************)
(* Values.                                                                 *)
(***************************************************************************)
Chars == {"x", "CR", "LF"}

RECURSIVE SeqsUpTo(_, _)
SeqsUpTo(S, n) ==
    IF n = 0 THEN {<<>>}
    ELSE LET shorter == SeqsUpTo(S, n - 1)
         IN  shorter \cup {Append(s, c) : s \in {t \in shorter : Len(t) = n - 1}, c \in S}

Contents == SeqsUpTo(Chars, MaxLen)

None == <<"None">>          \* Python None where a text is expected
Absent == <<"Absent">>      \* no file at a path

Name(stem, suffix) == [stem |-> stem, suffix |-> suffix]
NoPath == <<Name("None", "")>>   \* Python None where a path is expected

DEFAULT_OUTPUT_DIR == <<Name("cleaned", "")>>

InDir == <<Name("in", "")>>
OutDir == <<Name("out", "")>>
SubDir == Name("sub", "")
FileA == Name("a", ".md")
FileB == Name("b", ".md")
Notes == Name("notes", ".txt")

(***************************************************************************)
(* pathlib.                                                                *)
(***************************************************************************)
Prefixes(p) == {SubSeq(p, 1, k) : k \in 0..Len(p)}

\* PurePath.parents: every proper ancestor, down to Path(".")
ParentOnly(p) == {SubSeq(p, 1, Len(p) - 1)}
Parents(p) == {SubSeq(p, 1, k) : k \in 0..(Len(p) - 1)}

\* PurePath.name
PathName(p) == p[Len(p)]

\* PurePath.relative_to(other), defined when other is p or an ancestor of p
RECURSIVE RelativeTo(_, _)
RelativeTo(p, other) ==
    IF other = <<>> THEN p ELSE RelativeTo(Tail(p), Tail(other))

\* os.path.dirname
Dirname(p) == SubSeq(p, 1, Len(p) - 1)

\* get_output_path(input_path, output_dir) with suffix=None, the directory creation
\* aside: output_dir / f"{stem}{suffix}"
get_output_path(ip, od) ==
    LET input_path_obj == PathName(ip)
        base_name == input_path_obj.stem
    IN  Append(od, Name(base_name, input_path_obj.suffix))

\* batch_clean_directory: the relative part kept under output_dir
RelPathAlwaysName(file_path, idir) == <<PathName(file_path)>>
RelPath(file_path, idir) ==
    IF idir \in Parents(file_path)
    THEN RelativeTo(file_path, idir)
    ELSE <<PathName(file_path)>>

\* batch_clean_directory: Path(output_dir) / rel_path
BatchOutputPath(file_path, idir, odir) == odir \o RelPath(file_path, idir)

(***************************************************************************)
(* Text-mode I/O (open(..., encoding="utf-8"), newline=None).              *)
(***************************************************************************)
\* reading: universal newlines, "\r\n" and "\r" both become "\n"
RECURSIVE DecodeText(_)
DecodeText(b) ==
    IF b = <<>> THEN <<>>
    ELSE IF Head(b) = "CR"
         THEN IF Len(b) >= 2 /\ b[2] = "LF"
              THEN <<"LF">> \o DecodeText(SubSeq(b, 3, Len(b)))
              ELSE <<"LF">> \o DecodeText(Tail(b))
         ELSE <<Head(b)>> \o DecodeText(Tail(b))

\* writing: every "\n" becomes os.linesep, nothing else changes
RECURSIVE EncodeText(_, _)
EncodeText(t, sep) ==
    IF t = <<>> THEN <<>>
    ELSE (IF Head(t) = "LF" THEN sep ELSE <<Head(t)>>) \o EncodeText(Tail(t), sep)

\* open(path, "w") truncates: what the file holds once `data` has been written
WriteModeContent(old, data) == data

Content(files, p) == IF p \in DOMAIN files THEN files[p] ELSE Absent

\* read_markdown(file_path): the text, or None when open/read/decode raises
ReadOutcomes(files, p) ==
    IF p \in DOMAIN files THEN {DecodeText(files[p]), None} ELSE {None}

\* Path.mkdir(parents=True, exist_ok=True) / os.makedirs(exist_ok=True):
\* an existing directory is fine, creating one may raise
MkdirOutcomes(ds, d) == IF d \in ds THEN {"ok"} ELSE {"ok", "raised"}
MakeDirs(ds, d) == ds \cup Prefixes(d)

\* save_markdown: how far it gets
SaveOutcomes(ds, p) ==
    {"ok", "open_failed", "write_failed"}
        \cup (IF Dirname(p) \in ds THEN {} ELSE {"mkdir_failed"})

\* save_markdown: its return value
SaveReturnAlwaysTrue(outcome) == TRUE
SaveReturn(outcome) == outcome = "ok"

(***************************************************************************)
(* The model client (utils.TextAI.call): it returns a text or raises.      *)
(***************************************************************************)
ModelTexts == {<<"y", "CR", "LF">>}
Responses(content) == {content} \cup ModelTexts

(***************************************************************************)
(* Path.glob(pattern): a pattern is a sequence of components, each         *)
(* "**" (kind "rec"), "*" (kind "any") or "*<suffix>" (kind "suffix").     *)
(***************************************************************************)
Rec == [kind |-> "rec", suffix |-> ""]
AnyName == [kind |-> "any", suffix |-> ""]
Ending(sfx) == [kind |-> "suffix", suffix |-> sfx]

MatchName(c, name) == c.kind = "any" \/ (c.kind = "suffix" /\ name.suffix = c.suffix)

RECURSIVE Match(_, _)
Match(pat, rel) ==
    IF pat = <<>> THEN rel = <<>>
    ELSE IF Head(pat).kind = "rec"
         THEN Match(Tail(pat), rel) \/ (Len(rel) >= 2 /\ Match(pat, Tail(rel)))
         ELSE rel # <<>> /\ MatchName(Head(pat), Head(rel)) /\ Match(Tail(pat), Tail(rel))

\* find_files(directory, pattern): the matching entries below directory
FindFiles(files, ds, directory, pattern) ==
    {p \in (DOMAIN files) \cup ds :
        /\ directory \in Parents(p)
        /\ Match(pattern, RelativeTo(p, directory))}

\* the order in which glob yields them is the file system's
Enumerations(S) ==
    {s \in [1..Cardinality(S) -> S] : \A i, j \in 1..Cardinality(S) : s[i] = s[j] => i = j}

\* clean_markdown_with_llm: the results dict as first built
InitialResultsSuccess(ip, op) ==
    [success |-> TRUE, input_path |-> ip, output_path |-> op, cleaned_text |-> None]
InitialResults(ip, op) ==
    [success |-> FALSE, input_path |-> ip, output_path |-> op, cleaned_text |-> None]

\* clean_markdown_with_llm: results["cleaned_text"] = cleaned_text, before the save
KeepCleanedTextNone(res, text) == res
WithCleanedText(res, text) == [res EXCEPT !.cleaned_text = text]

\* clean_markdown_with_llm: an exception raised at `stage` leaves the function
\* unless the stage lies inside the try block (the model call and the save)
EscapesEverywhere(stage) == TRUE
Escapes(stage) == stage \notin {"call", "save"}

\* batch_clean_directory: results.append(file_result)
AppendOnlySuccess(list, file_result) ==
    IF file_result.success THEN Append(list, file_result) ELSE list
AppendResult(list, file_result) == Append(list, file_result)

(***************************************************************************)
(* Observations: what one invocation of clean_markdown_with_llm did.       *)
(***************************************************************************)
FreshObservation(ip, op, files, ds) ==
    [input_path |-> ip, output_param |-> op, fsBefore |-> files, dirsBefore |-> ds,
     readOk |-> FALSE, derive |-> "none", call |-> "none", sent |-> None,
     returned |-> None, ncalls |-> 0, save |-> "none", written |-> None]

Entry(c, res, escaped, files, ds) ==
    [obs |-> c, escaped |-> escaped, result |-> res, fsAfter |-> files, dirsAfter |-> ds]

\* the invocation ends: `return results`, or an exception leaves the function.
\* In a batch the returned dict is appended (clean.py:162) and the loop moves on;
\* an escaping exception ends batch_clean_directory as well.
Finish(c, res, escaped, files, ds) ==
    /\ log' = Append(log, Entry(c, res, escaped, files, ds))
    /\ cur' = c
    /\ results' = res
    /\ pc' = IF escaped THEN "raised" ELSE "returned"
    /\ IF mode = "batch"
       THEN IF escaped
            THEN bpc' = "raised" /\ UNCHANGED <<batch_results, idx>>
            ELSE /\ batch_results' = AppendResult(batch_results, res)
                 /\ idx' = idx + 1
                 /\ bpc' = bpc
       ELSE UNCHANGED <<batch_results, idx, bpc>>

(***************************************************************************)
(* Initial states.                                                         *)
(***************************************************************************)
LineSeps == {<<"LF">>, <<"CR", "LF">>}

SingleInput == InDir \o <<FileA>>
OutputArgs == {NoPath, OutDir \o <<FileA>>, SingleInput}

BatchContent == <<"x", "LF">>
BatchTree ==
    (InDir \o <<FileA>> :> BatchContent) @@ (InDir \o <<FileB>> :> BatchContent)
        @@ (InDir \o <<Notes>> :> BatchContent)
        @@ (InDir \o <<SubDir, FileA>> :> BatchContent)
BatchDirs == {<<>>, InDir, InDir \o <<SubDir>>}
Patterns ==
    {<<Ending(".md")>>, <<AnyName, Ending(".md")>>, <<Rec, Ending(".md")>>,
     <<Ending(".pdf")>>}

Idle ==
    /\ markdown_files = <<>>
    /\ idx = 0
    /\ batch_results = <<>>
    /\ input_path = NoPath
    /\ output_path = NoPath
    /\ results = InitialResults(NoPath, NoPath)
    /\ markdown_text = None
    /\ cleaned_text = None
    /\ pc = "idle"
    /\ cur = FreshObservation(NoPath, NoPath, fs, dirs)
    /\ log = <<>>
    /\ runs = 0

\* a caller about to call clean_markdown_with_llm on in/a.md
InitSingle ==
    /\ mode = "single"
    /\ linesep \in LineSeps
    /\ input_dir = <<>> /\ output_dir = <<>> /\ file_pattern = <<>>
    /\ bpc = "none"
    /\ output_arg \in OutputArgs
    /\ \E c \in Contents \cup {Absent} :
          fs = IF c = Absent THEN <<>> ELSE (SingleInput :> c)
    /\ dirs = {<<>>, InDir}
    /\ Idle

\* a caller about to call batch_clean_directory on the directory in/
InitBatch ==
    /\ mode = "batch"
    /\ linesep \in LineSeps
    /\ input_dir = InDir
    /\ output_dir \in {OutDir, InDir}
    /\ file_pattern \in Patterns
    /\ bpc = "start"
    /\ output_arg = NoPath
    /\ fs = BatchTree
    /\ dirs = BatchDirs
    /\ Idle

Init == InitSingle \/ InitBatch

(***************************************************************************)
(* clean_markdown_with_llm, called directly.                               *)
(***************************************************************************)
Enter(ip, op) ==
    /\ input_path' = ip
    /\ output_path' = op
    /\ results' = InitialResults(ip, op)
    /\ markdown_text' = None
    /\ cleaned_text' = None
    /\ cur' = FreshObservation(ip, op, fs, dirs)
    /\ pc' = "read"

CallOnce ==
    /\ mode = "single" /\ pc = "idle" /\ runs = 0
    /\ Enter(SingleInput, output_arg)
    /\ runs' = 1
    /\ UNCHANGED <<mode, linesep, input_dir, output_dir, file_pattern, markdown_files,
                   idx, batch_results, bpc, output_arg, fs, dirs, log>>

\* the caller runs it a second time on the same arguments
CallAgain ==
    /\ mode = "single" /\ pc = "returned" /\ runs = 1
    /\ Enter(SingleInput, output_arg)
    /\ runs' = 2
    /\ UNCHANGED <<mode, linesep, input_dir, output_dir, file_pattern, markdown_files,
                   idx, batch_results, bpc, output_arg, fs, dirs, log>>

\* clean.py:71-74
ReadMarkdown ==
    /\ pc = "read"
    /\ \E text \in ReadOutcomes(fs, input_path) :
          /\ markdown_text' = text
          /\ IF text = None
             THEN Finish(cur, results, FALSE, fs, dirs)
             ELSE /\ cur' = [cur EXCEPT !.readOk = TRUE]
                  /\ pc' = "path"
                  /\ UNCHANGED <<results, log, batch_results, idx, bpc>>
    /\ UNCHANGED <<mode, linesep, input_dir, output_dir, file_pattern, markdown_files,
                   input_path, output_path, cleaned_text, output_arg, fs, dirs, runs>>

\* clean.py:76-80
DeriveOutputPath ==
    /\ pc = "path"
    /\ IF output_path = NoPath
       THEN \E o \in MkdirOutcomes(dirs, DEFAULT_OUTPUT_DIR) :
               IF o = "ok"
               THEN /\ dirs' = MakeDirs(dirs, DEFAULT_OUTPUT_DIR)
                    /\ output_path' = get_output_path(input_path, DEFAULT_OUTPUT_DIR)
                    /\ results' = [results EXCEPT !.output_path = output_path']
                    /\ cur' = [cur EXCEPT !.derive = "derived"]
                    /\ pc' = "call"
                    /\ UNCHANGED <<log, batch_results, idx, bpc>>
               ELSE /\ Finish([cur EXCEPT !.derive = "raised"], results,
                              Escapes("derive"), fs, dirs)
                    /\ UNCHANGED <<dirs, output_path>>
       ELSE /\ results' = [results EXCEPT !.output_path = output_path]
            /\ cur' = [cur EXCEPT !.derive = "supplied"]
            /\ pc' = "call"
            /\ UNCHANGED <<dirs, output_path, log, batch_results, idx, bpc>>
    /\ UNCHANGED <<mode, linesep, input_dir, output_dir, file_pattern, markdown_files,
                   input_path, markdown_text, cleaned_text, output_arg, fs, runs>>

\* clean.py:82-91, and 97-98 when the call raises
CallModel ==
    /\ pc = "call"
    /\ \/ \E text \in Responses(markdown_text) :
             /\ cleaned_text' = text
             /\ results' = WithCleanedText(results, text)
             /\ cur' = [cur EXCEPT !.call = "ok", !.sent = markdown_text,
                                   !.returned = text, !.ncalls = @ + 1]
             /\ pc' = "save"
             /\ UNCHANGED <<log, batch_results, idx, bpc>>
       \/ /\ Finish([cur EXCEPT !.call = "raised", !.sent = markdown_text,
                                !.ncalls = @ + 1],
                    results, Escapes("call"), fs, dirs)
          /\ UNCHANGED cleaned_text
    /\ UNCHANGED <<mode, linesep, input_dir, output_dir, file_pattern, markdown_files,
                   input_path, output_path, markdown_text, output_arg, fs, dirs, runs>>

\* clean.py:93-100 with save_markdown (file_handling.py:35-47)
SaveMarkdown ==
    /\ pc = "save"
    /\ \E o \in SaveOutcomes(dirs, output_path) :
          LET data == EncodeText(cleaned_text, linesep)
              old == Content(fs, output_path)
              c == [cur EXCEPT !.save = o, !.written = cleaned_text]
              res == IF SaveReturn(o) THEN [results EXCEPT !.success = TRUE] ELSE results
          IN  /\ dirs' = IF o = "mkdir_failed" THEN dirs
                         ELSE MakeDirs(dirs, Dirname(output_path))
              /\ CASE o = "ok" ->
                        fs' = (output_path :> WriteModeContent(old, data)) @@ fs
                   [] o = "write_failed" ->
                        \E k \in 0..(IF Len(data) = 0 THEN 0 ELSE Len(data) - 1) :
                           fs' = (output_path :> WriteModeContent(old, SubSeq(data, 1, k)))
                                    @@ fs
                   [] OTHER -> fs' = fs
              /\ Finish(c, res, FALSE, fs', dirs')
    /\ UNCHANGED <<mode, linesep, input_dir, output_dir, file_pattern, markdown_files,
                   input_path, output_path, markdown_text, cleaned_text, output_arg, runs>>

(***************************************************************************)
(* batch_clean_directory.                                                  *)
(***************************************************************************)
\* clean.py:127-136
FindMarkdownFiles ==
    /\ mode = "batch" /\ bpc = "start"
    /\ \E files \in Enumerations(FindFiles(fs, dirs, input_dir, file_pattern)) :
          /\ markdown_files' = files
          /\ bpc' = IF files = <<>> THEN "done" ELSE "ensure_dir"
    /\ UNCHANGED <<mode, linesep, input_dir, output_dir, file_pattern, idx, batch_results,
                   input_path, output_path, results, markdown_text, pc, cleaned_text,
                   output_arg, fs, dirs, cur, log, runs>>

\* clean.py:138-139
EnsureOutputDir ==
    /\ mode = "batch" /\ bpc = "ensure_dir"
    /\ \E o \in MkdirOutcomes(dirs, output_dir) :
          IF o = "ok"
          THEN dirs' = MakeDirs(dirs, output_dir) /\ bpc' = "loop" /\ idx' = 1
          ELSE bpc' = "raised" /\ UNCHANGED <<dirs, idx>>
    /\ UNCHANGED <<mode, linesep, input_dir, output_dir, file_pattern, markdown_files,
                   batch_results, input_path, output_path, results, markdown_text, pc,
                   cleaned_text, output_arg, fs, cur, log, runs>>

\* clean.py:142-160: the next file's output path, and the call
NextFile ==
    /\ bpc = "loop" /\ pc \in {"idle", "returned"}
    /\ idx <= Len(markdown_files)
    /\ LET file_path == markdown_files[idx]
       IN  Enter(file_path, BatchOutputPath(file_path, input_dir, output_dir))
    /\ UNCHANGED <<mode, linesep, input_dir, output_dir, file_pattern, markdown_files,
                   idx, batch_results, bpc, output_arg, fs, dirs, log, runs>>

\* clean.py:164-167
PrintBatchSummary ==
    /\ mode = "batch" /\ bpc = "loop" /\ pc \in {"idle", "returned"}
    /\ idx > Len(markdown_files)
    /\ bpc' = "done"
    /\ UNCHANGED <<mode, linesep, input_dir, output_dir, file_pattern, markdown_files,
                   idx, batch_results, input_path, output_path, results, markdown_text,
                   pc, cleaned_text, output_arg, fs, dirs, cur, log, runs>>

Next ==
    \/ CallOnce
    \/ CallAgain
    \/ ReadMarkdown
    \/ DeriveOutputPath
    \/ CallModel
    \/ SaveMarkdown
    \/ FindMarkdownFiles
    \/ EnsureOutputDir
    \/ NextFile
    \/ PrintBatchSummary

Spec == Init /\ [][Next]_vars

(***************************************************************************)
(* The path derivation alone, on any directory and any file path: the      *)
(* loop body of batch_clean_directory up to the call (NextFile).           *)
(***************************************************************************)
DirNames == {Name("in", ""), SubDir}
DirPaths == SeqsUpTo(DirNames, MaxDepth)
FilePaths == {Append(d, n) : d \in DirPaths, n \in {FileA, FileB}}

InitPath ==
    /\ mode = "path"
    /\ linesep = <<"LF">>
    /\ input_dir \in DirPaths
    /\ output_dir \in {OutDir, <<>>}
    /\ file_pattern = <<>>
    /\ bpc = "loop"
    /\ output_arg = NoPath
    /\ fs = <<>>
    /\ dirs = {<<>>}
    /\ \E f \in FilePaths : markdown_files = <<f>>
    /\ idx = 1
    /\ batch_results = <<>>
    /\ input_path = NoPath
    /\ output_path = NoPath
    /\ results = InitialResults(NoPath, NoPath)
    /\ markdown_text = None
    /\ cleaned_text = None
    /\ pc = "idle"
    /\ cur = FreshObservation(NoPath, NoPath, fs, dirs)
    /\ log = <<>>
    /\ runs = 0

NextPath == NextFile

SpecPath == InitPath /\ [][NextPath]_vars

(***************************************************************************)
(* Claims.                                                                 *)
(***************************************************************************)
Invocations == 1..Len(log)
WriteFailures == {"mkdir_failed", "open_failed", "write_failed"}

\* C1: every Outcome Record returned by clean_markdown_with_llm has success = TRUE
\* only if the read, the model call and the write all succeeded, and then its
\* cleaned_text is present, is the text that was handed to the write, and the file
\* at the record's output_path holds that text as written (encoded) on return.
C1_SuccessOnlyWhenAllSucceeded ==
    \A i \in Invocations :
        LET e == log[i] IN
        (~e.escaped /\ e.result.success) =>
            /\ e.obs.readOk
            /\ e.obs.call = "ok"
            /\ e.obs.save = "ok"
            /\ e.result.cleaned_text # None
            /\ e.result.cleaned_text = e.obs.written
            /\ e.result.cleaned_text = e.obs.returned
            /\ Content(e.fsAfter, e.result.output_path)
                   = EncodeText(e.result.cleaned_text, linesep)

C1_Witness ==
    \E i \in Invocations :
        /\ ~log[i].escaped
        /\ log[i].result.success
        /\ log[i].result.cleaned_text # <<>>

\* C2: when reading the input fails, clean_markdown_with_llm returns (no exception
\* leaves it) a record with success = FALSE and cleaned_text None, makes no model
\* call, and writes nothing: files and directories are as before the call.
C2_ReadFailure ==
    \A i \in Invocations :
        LET e == log[i] IN
        ~e.obs.readOk =>
            /\ ~e.escaped
            /\ e.result.success = FALSE
            /\ e.result.cleaned_text = None
            /\ e.obs.ncalls = 0
            /\ e.obs.call = "none"
            /\ e.obs.save = "none"
            /\ e.fsAfter = e.obs.fsBefore
            /\ e.dirsAfter = e.obs.dirsBefore

C2_Witness ==
    \E i \in Invocations :
        /\ ~log[i].obs.readOk
        /\ log[i].obs.input_path \notin DOMAIN log[i].obs.fsBefore

\* C3: when the model call raises, clean_markdown_with_llm returns a record with
\* success = FALSE, no exception leaves it, and the output file is as it was before
\* the call: still absent, or still holding its previous content.
C3_ModelCallRaises ==
    \A i \in Invocations :
        LET e == log[i] IN
        e.obs.call = "raised" =>
            /\ ~e.escaped
            /\ e.result.success = FALSE
            /\ Content(e.fsAfter, e.result.output_path)
                   = Content(e.obs.fsBefore, e.result.output_path)
            /\ e.fsAfter = e.obs.fsBefore

C3_Witness ==
    \E i \in Invocations :
        /\ log[i].obs.call = "raised"
        /\ ~log[i].escaped
        /\ log[i].result.output_path \in DOMAIN log[i].obs.fsBefore

\* C4 (as claimed): a failure to create the destination directory, be it the default
\* directory of a derived output path, the parent of a supplied output path or the
\* batch output directory, ends in a returned record with success = FALSE; no
\* exception leaves clean_markdown_with_llm or batch_clean_directory.
C4_DirectoryFailureRecovered ==
    /\ pc # "raised"
    /\ bpc # "raised"
    /\ \A i \in Invocations :
          LET e == log[i] IN
          (e.obs.derive = "raised" \/ e.obs.save = "mkdir_failed") =>
              ~e.escaped /\ e.result.success = FALSE

\* C5: when the model call succeeds and the write fails, the returned record has
\* success = FALSE and its cleaned_text is present and is the text the model returned.
C5_WriteFailureKeepsContent ==
    \A i \in Invocations :
        LET e == log[i] IN
        (e.obs.call = "ok" /\ e.obs.save \in WriteFailures) =>
            /\ ~e.escaped
            /\ e.result.success = FALSE
            /\ e.result.cleaned_text # None
            /\ e.result.cleaned_text = e.obs.returned

C5_Witness ==
    \E i \in Invocations :
        /\ log[i].obs.call = "ok"
        /\ log[i].obs.save = "write_failed"
        /\ log[i].obs.returned # log[i].obs.sent

\* C6: batch_clean_directory returns one record per matched file, in enumeration
\* order, whatever stage a document fails at: while the loop runs the records so far
\* are those of the files so far, at the end there is one per file, and the only
\* way the batch stops early is before the first document.
C6_OneRecordPerFileInOrder ==
    /\ (mode = "batch" /\ bpc \in {"loop", "done"}) =>
          /\ Len(batch_results) = Len(log)
          /\ Len(batch_results) <= Len(markdown_files)
          /\ \A i \in 1..Len(batch_results) :
                /\ batch_results[i].input_path = markdown_files[i]
                /\ batch_results[i] = log[i].result
    /\ (mode = "batch" /\ bpc = "done") => Len(batch_results) = Len(markdown_files)
    /\ (mode = "batch" /\ bpc = "raised") => (log = <<>> /\ idx = 0)

C6_Witness ==
    /\ mode = "batch" /\ bpc = "done"
    /\ Len(batch_results) = 3
    /\ ~log[1].obs.readOk
    /\ log[2].obs.call = "raised"
    /\ log[3].obs.save = "write_failed"

RECURSIVE TotalCalls(_)
TotalCalls(l) == IF l = <<>> THEN 0 ELSE Head(l).obs.ncalls + TotalCalls(Tail(l))

\* C7 (as claimed): every invocation of clean_markdown_with_llm makes at most one
\* model call and exactly one when the read succeeded, so a finished batch has made
\* as many model calls as it has documents whose read succeeded.
C7_OneCallPerReadableDocument ==
    /\ \A i \in Invocations :
          /\ log[i].obs.ncalls <= 1
          /\ log[i].obs.readOk => log[i].obs.ncalls = 1
    /\ (mode = "batch" /\ bpc = "done") =>
          TotalCalls(log) = Cardinality({i \in Invocations : log[i].obs.readOk})

\* C8: the output path of a matched file is output_dir joined with the file's path
\* below input_dir when input_dir is a proper ancestor of the file, and output_dir
\* joined with the file's name alone otherwise.
C8_OutputPathRerooted ==
    (mode = "path" /\ pc = "read") =>
        LET f == markdown_files[1]
            n == Len(input_dir)
        IN  IF Len(f) > n /\ SubSeq(f, 1, n) = input_dir
            THEN output_path = output_dir \o SubSeq(f, n + 1, Len(f))
            ELSE output_path = output_dir \o <<f[Len(f)]>>

C8_Witness ==
    /\ mode = "path" /\ pc = "read"
    /\ input_dir = InDir
    /\ output_dir = OutDir
    /\ markdown_files = <<InDir \o <<SubDir, FileA>>>>
    /\ output_path = OutDir \o <<SubDir, FileA>>

\* C9: in one batch run no two records have the same output_path, and no document's
\* output is overwritten by another's: at the end every successful record's file
\* still holds that record's text.
C9_DistinctOutputPaths ==
    (mode = "batch" /\ bpc \in {"loop", "done"}) =>
        /\ \A i, j \in 1..Len(batch_results) :
              batch_results[i].output_path = batch_results[j].output_path => i = j
        /\ \A i \in 1..Len(batch_results) :
              batch_results[i].success =>
                  Content(fs, batch_results[i].output_path)
                      = EncodeText(batch_results[i].cleaned_text, linesep)

C9_Witness ==
    /\ mode = "batch" /\ bpc = "done"
    /\ \E i, j \in 1..Len(batch_results) :
          /\ i # j
          /\ PathName(batch_results[i].input_path) = PathName(batch_results[j].input_path)
          /\ batch_results[i].success
          /\ batch_results[j].success

\* C10 (as claimed): with a model call that returns its input unchanged, two
\* successful runs on the same arguments leave the output file with the same content
\* after the second as after the first, and that content is the input file's content.
C10_IdentityRunsReproduceInput ==
    (/\ mode = "single"
     /\ Len(log) = 2
     /\ \A i \in {1, 2} :
           /\ ~log[i].escaped
           /\ log[i].result.success
           /\ log[i].obs.returned = log[i].obs.sent) =>
        /\ Content(log[2].fsAfter, log[2].result.output_path)
               = Content(log[1].fsAfter, log[1].result.output_path)
        /\ Content(log[2].fsAfter, log[2].result.output_path)
               = Content(log[1].obs.fsBefore, SingleInput)

====
